---- MODULE Spec2Model ----
(***************************************************************************)
(* Model of AirportManagementSystem.cpp: the AirportManager coordinator,  *)
(* its priority queue of flights (std::priority_queue over                *)
(* FlightComparator), the Runway slots and the per-runway worker threads  *)
(* running processRunway.                                                 *)
(*                                                                         *)
(* The flight type ("takeoff"/"landing"/...) is left out: it is only      *)
(* printed and selects between TAKEOFF_TIME and LANDING_TIME, which are   *)
(* equal, so it changes neither the order nor the synchronisation.        *)
(***************************************************************************)
EXTENDS Integers, Sequences, FiniteSets, TLC

\* ------------------------------------------------------------------ bounds
MaxRunways == 2        \* numRunways is drawn from 1..MaxRunways
MaxFlights == 3        \* addFlight calls in Spec
MaxOrderFlights == 4   \* addFlight calls in SpecOrder

\* Inputs the callers choose from: priorities and "HH:MM" strings (as <<HH, MM>>).
Priorities == {1, 2}
TimeStrs == {<<9, 0>>, <<9, 10>>}
\* SpecOrder adds a time within the tolerance of both others
OrderTimeStrs == {<<9, 0>>, <<9, 5>>, <<9, 10>>}
\* The scenario of three flights on two runways: <<priority, time>> of flights 1, 2, 3
ScenarioFlights == << <<1, <<9, 0>>>>, <<1, <<9, 0>>>>, <<5, <<9, 0>>>> >>

\* ------------------------------------------------------------ program constants
Tolerance == 5

VARIABLES
    runways,        \* AirportManager::runways: sequence of [id, isAvailable]
    flightQueue,    \* the vector under std::priority_queue (a binary heap)
    isShutdown,     \* AirportManager::isShutdown
    queueMutex,     \* owner of queueMutex: 0 = free, t = worker thread t
    threads,        \* start()'s runwayThreads: [runwayId, pc, flight] per thread
    mpc,            \* position of the thread that calls start()
    joined,         \* number of threads start() has joined
    submitted,      \* number of addFlight calls made so far (ids are 1..submitted)
    dispatchLog,    \* flights in the order they were popped: [id, runway]
    completions     \* per flight id, how often its "completed" message was emitted

vars == <<runways, flightQueue, isShutdown, queueMutex, threads, mpc, joined,
          submitted, dispatchLog, completions>>

\* ------------------------------------------------------------------ Flight
NoFlight == [id |-> 0, priority |-> 0, timeInMinutes |-> 0, status |-> "none"]

\* Flight::Flight: sscanf "%d:%d", timeInMinutes = hours * 60 + minutes, status "waiting"
Flight(id, priority, timeStr) ==
    [id |-> id, priority |-> priority,
     timeInMinutes |-> timeStr[1] * 60 + timeStr[2], status |-> "waiting"]

Abs(x) == IF x < 0 THEN -x ELSE x

\* A comparator whose priority test is turned around
ComparatorLowNumberOnTop(f1, f2) ==
    LET timeDiff == Abs(f1.timeInMinutes - f2.timeInMinutes)
    IN  IF Abs(timeDiff) <= Tolerance
        THEN f1.priority > f2.priority
        ELSE f1.timeInMinutes > f2.timeInMinutes

\* A comparator that looks at the priority first and at the time only between
\* flights of equal priority
ComparatorPriorityFirst(f1, f2) ==
    IF f1.priority # f2.priority
    THEN f1.priority < f2.priority
    ELSE f1.timeInMinutes > f2.timeInMinutes

\* FlightComparator::operator(): TRUE means f1 is ordered below f2 (f2 nearer the top)
FlightComparator(f1, f2) ==
    LET timeDiff == Abs(f1.timeInMinutes - f2.timeInMinutes)
    IN  IF Abs(timeDiff) <= Tolerance
        THEN f1.priority < f2.priority
        ELSE f1.timeInMinutes > f2.timeInMinutes

\* --------------------------------------------------- std::priority_queue (heap)
\* Indices are 0-based as in the library; At/Put translate to 1-based sequences.
At(v, i) == v[i + 1]
Put(v, i, x) == [v EXCEPT ![i + 1] = x]

\* std::__push_heap: sift `value` up from holeIndex, not above topIndex
RECURSIVE PushHeap(_, _, _, _)
PushHeap(v, holeIndex, topIndex, value) ==
    LET parent == (holeIndex - 1) \div 2
    IN  IF holeIndex > topIndex /\ FlightComparator(At(v, parent), value)
        THEN PushHeap(Put(v, holeIndex, At(v, parent)), parent, topIndex, value)
        ELSE Put(v, holeIndex, value)

\* priority_queue::push: c.push_back(x); std::push_heap(c.begin(), c.end())
QueuePush(q, f) == PushHeap(Append(q, f), Len(q), 0, f)

\* A top that reads the back of the vector
QueueBack(q) == q[Len(q)]

\* priority_queue::top: c.front()
QueueTop(q) == q[1]

\* std::__adjust_heap, first loop: move the hole down along the larger child
RECURSIVE SiftDown(_, _, _)
SiftDown(v, hole, len) ==
    IF hole < (len - 1) \div 2
    THEN LET right == 2 * (hole + 1)
             child == IF FlightComparator(At(v, right), At(v, right - 1))
                      THEN right - 1 ELSE right
         IN  SiftDown(Put(v, hole, At(v, child)), child, len)
    ELSE <<v, hole>>

\* std::__adjust_heap: the loop, the lone left child of an even length, then __push_heap
AdjustHeap(v, len, value) ==
    LET down == SiftDown(v, 0, len)
        v1 == down[1]
        h1 == down[2]
        last == IF len % 2 = 0 /\ h1 = (len - 2) \div 2
                THEN <<Put(v1, h1, At(v1, 2 * (h1 + 1) - 1)), 2 * (h1 + 1) - 1>>
                ELSE <<v1, h1>>
    IN  PushHeap(last[1], last[2], 0, value)

\* priority_queue::pop: std::pop_heap(c.begin(), c.end()); c.pop_back()
QueuePop(q) ==
    IF Len(q) <= 1 THEN <<>>
    ELSE AdjustHeap(SubSeq(q, 1, Len(q) - 1), Len(q) - 1, q[Len(q)])

\* ---------------------------------------------------------------- Init
\* A constructor that starts with the shutdown flag set
InitShutdownSet(numRunways) ==
    /\ runways = [i \in 1..numRunways |-> [id |-> i, isAvailable |-> TRUE]]
    /\ flightQueue = <<>>
    /\ isShutdown = TRUE
    /\ queueMutex = 0
    /\ threads = <<>>
    /\ mpc = "input"
    /\ joined = 0
    /\ submitted = 0
    /\ dispatchLog = <<>>
    /\ completions = <<>>

\* AirportManager(numRunways): runways 1..numRunways, all available, isShutdown false
InitWith(numRunways) ==
    /\ runways = [i \in 1..numRunways |-> [id |-> i, isAvailable |-> TRUE]]
    /\ flightQueue = <<>>
    /\ isShutdown = FALSE
    /\ queueMutex = 0
    /\ threads = <<>>
    /\ mpc = "input"
    /\ joined = 0
    /\ submitted = 0
    /\ dispatchLog = <<>>
    /\ completions = <<>>

Init == \E numRunways \in 1..MaxRunways : InitWith(numRunways)

ThreadIds == 1..Len(threads)

\* queueCV.notify_one(): wakes one of the threads blocked in queueCV.wait, if any
NotifyOne(ts) ==
    IF \E t \in 1..Len(ts) : ts[t].pc = "blocked"
    THEN {[ts EXCEPT ![t].pc = "woken"] : t \in {u \in 1..Len(ts) : ts[u].pc = "blocked"}}
    ELSE {ts}

\* A shutdown that sets the flag and wakes nobody
NotifyNobody(ts) == ts

\* queueCV.notify_all(): wakes every thread blocked in queueCV.wait
NotifyAll(ts) ==
    [t \in 1..Len(ts) |->
        IF ts[t].pc = "blocked" THEN [ts[t] EXCEPT !.pc = "woken"] ELSE ts[t]]

\* ---------------------------------------------------------------- addFlight
\* AirportManager::addFlight: lock_guard(queueMutex); push; notify_one.
\* There is no test of isShutdown: the flight is pushed in every state.
AddFlight(priority, timeStr) ==
    /\ queueMutex = 0
    /\ flightQueue' = QueuePush(flightQueue, Flight(submitted + 1, priority, timeStr))
    /\ submitted' = submitted + 1
    /\ completions' = Append(completions, 0)
    /\ threads' \in NotifyOne(threads)
    /\ UNCHANGED <<runways, isShutdown, queueMutex, mpc, joined, dispatchLog>>

\* ---------------------------------------------------------------- start()
\* start(): the caller enters start() (the two start-up messages)
StartBegin ==
    /\ mpc = "input"
    /\ mpc' = "spawn"
    /\ UNCHANGED <<runways, flightQueue, isShutdown, queueMutex, threads, joined,
                   submitted, dispatchLog, completions>>

\* A spawn loop that hands every thread the first runway
SpawnFirstRunway(i) == 1

\* The runway id the spawn loop hands to thread number i (0-based): i + 1
SpawnRunwayId(i) == i + 1

\* start(): one iteration of the loop that creates the runway threads; after the
\* last one the caller blocks in std::cin.get()
Spawn ==
    /\ mpc = "spawn"
    /\ IF Len(threads) < Len(runways)
       THEN /\ threads' = Append(threads,
                   [runwayId |-> SpawnRunwayId(Len(threads)), pc |-> "lock",
                    flight |-> NoFlight])
            /\ mpc' = mpc
       ELSE /\ threads' = threads
            /\ mpc' = "cin"
    /\ UNCHANGED <<runways, flightQueue, isShutdown, queueMutex, joined,
                   submitted, dispatchLog, completions>>

\* The value the shutdown block stores in isShutdown
ShutdownValue == TRUE

\* start(): "Initiate shutdown": lock_guard(queueMutex); isShutdown = true; notify_all
RequestShutdown ==
    /\ mpc = "cin"
    /\ queueMutex = 0
    /\ isShutdown' = ShutdownValue
    /\ threads' = NotifyAll(threads)
    /\ mpc' = "join"
    /\ UNCHANGED <<runways, flightQueue, queueMutex, joined, submitted,
                   dispatchLog, completions>>

\* A join loop that stops one thread short
JoinAllButLast == Len(threads) - 1

\* The number of threads the join loop waits for
JoinCount == Len(threads)

\* start(): the join loop, one thread.join() per step, then the final message
Join ==
    /\ mpc = "join"
    /\ IF joined < JoinCount
       THEN /\ threads[joined + 1].pc = "Terminated"
            /\ joined' = joined + 1
            /\ mpc' = mpc
       ELSE /\ joined' = joined
            /\ mpc' = "returned"
    /\ UNCHANGED <<runways, flightQueue, isShutdown, queueMutex, threads,
                   submitted, dispatchLog, completions>>

\* ---------------------------------------------------------------- processRunway
\* unique_lock queueLock(queueMutex) at the top of the loop, and the re-acquisition
\* of the mutex by a thread woken inside queueCV.wait
Lock(t) ==
    /\ threads[t].pc \in {"lock", "woken"}
    /\ queueMutex = 0
    /\ queueMutex' = t
    /\ threads' = [threads EXCEPT ![t].pc = "wait"]
    /\ UNCHANGED <<runways, flightQueue, isShutdown, mpc, joined, submitted,
                   dispatchLog, completions>>

\* A wait predicate that looks at the queue only and forgets the shutdown flag
WaitForWorkOnly == Len(flightQueue) # 0

\* The predicate of queueCV.wait: isShutdown when the queue is empty, and
\* isShutdown when it is not (the time test is commented out)
WaitPredicate ==
    IF Len(flightQueue) = 0 THEN isShutdown ELSE isShutdown

\* queueCV.wait(queueLock, pred): with the mutex held, return if pred holds,
\* otherwise release the mutex and block
Wait(t) ==
    /\ threads[t].pc = "wait"
    /\ queueMutex = t
    /\ IF WaitPredicate
       THEN /\ threads' = [threads EXCEPT ![t].pc = "check"]
            /\ queueMutex' = queueMutex
       ELSE /\ threads' = [threads EXCEPT ![t].pc = "blocked"]
            /\ queueMutex' = 0
    /\ UNCHANGED <<runways, flightQueue, isShutdown, mpc, joined, submitted,
                   dispatchLog, completions>>

\* A spurious wake-up of a thread blocked in queueCV.wait
SpuriousWake(t) ==
    /\ threads[t].pc = "blocked"
    /\ threads' = [threads EXCEPT ![t].pc = "woken"]
    /\ UNCHANGED <<runways, flightQueue, isShutdown, queueMutex, mpc, joined,
                   submitted, dispatchLog, completions>>

\* A thread that reads the top and leaves it in the queue
TakeNothing(q) == q

\* The queue after a thread has taken its flight: flightQueue.pop()
Take(q) == QueuePop(q)

\* An exit test that forgets the queue
ExitOnShutdown == isShutdown

\* The exit test of the loop: if (isShutdown && flightQueue.empty())
ExitCondition == isShutdown /\ Len(flightQueue) = 0

\* A pop that goes on to the processing with queueMutex still held by thread t
KeepLockAfterPop(t) == t

\* The owner of queueMutex after the pop: queueLock.unlock() frees it
OwnerAfterPop(t) == 0

\* The body after the wait, with the mutex held:
\*   isShutdown && empty  -> the "shutting down" message (mutex still held), break
\*   !empty && isShutdown -> flight = top(); pop(); queueLock.unlock()
\*   otherwise            -> next iteration (queueLock is destroyed: unlock)
Check(t) ==
    /\ threads[t].pc = "check"
    /\ queueMutex = t
    /\ IF ExitCondition
       THEN /\ threads' = [threads EXCEPT ![t].pc = "shutdownMsg"]
            /\ UNCHANGED <<flightQueue, queueMutex, dispatchLog>>
       ELSE IF Len(flightQueue) # 0 /\ isShutdown
       THEN /\ threads' = [threads EXCEPT ![t].pc = "processing",
                                          ![t].flight = QueueTop(flightQueue)]
            /\ flightQueue' = Take(flightQueue)
            /\ queueMutex' = OwnerAfterPop(t)
            /\ dispatchLog' = Append(dispatchLog,
                   [id |-> QueueTop(flightQueue).id, runway |-> threads[t].runwayId])
       ELSE /\ threads' = [threads EXCEPT ![t].pc = "lock"]
            /\ queueMutex' = 0
            /\ UNCHANGED <<flightQueue, dispatchLog>>
    /\ UNCHANGED <<runways, isShutdown, mpc, joined, submitted, completions>>

\* printMessage("Runway N shutting down.") with queueMutex held, then break:
\* queueLock is destroyed and the thread function returns
ShutdownMsg(t) ==
    /\ threads[t].pc = "shutdownMsg"
    /\ queueMutex = t
    /\ queueMutex' = 0
    /\ threads' = [threads EXCEPT ![t].pc = "Terminated"]
    /\ UNCHANGED <<runways, flightQueue, isShutdown, mpc, joined, submitted,
                   dispatchLog, completions>>

\* Runway::assignFlight: claims the runway if it is available (no caller in the program)
assignFlight(r) == IF r.isAvailable THEN [r EXCEPT !.isAvailable = FALSE] ELSE r

\* Runway::release: isAvailable = true, whatever it was
release(r) == [r EXCEPT !.isAvailable = TRUE]

\* The "processing" message and the sleep are over: runways[runwayId - 1].release(),
\* then the "completed" message; the loop starts again
FinishFlight(t) ==
    /\ threads[t].pc = "processing"
    /\ runways' = [runways EXCEPT ![threads[t].runwayId] = release(@)]
    /\ completions' = [completions EXCEPT ![threads[t].flight.id] = @ + 1]
    /\ threads' = [threads EXCEPT ![t].pc = "lock", ![t].flight = NoFlight]
    /\ UNCHANGED <<flightQueue, isShutdown, queueMutex, mpc, joined, submitted,
                   dispatchLog>>

Worker(t) ==
    \/ Lock(t)
    \/ Wait(t)
    \/ Check(t)
    \/ ShutdownMsg(t)
    \/ FinishFlight(t)

\* ================================================================ properties
Processing(t) == threads[t].pc = "processing"

OnRunway(r) == {t \in ThreadIds : Processing(t) /\ threads[t].runwayId = r}

\* C1: mutual exclusion: in every reachable state each runway has at most one
\* flight being processed on it; no two worker threads process flights against
\* the same runway at the same time.
C1_MutualExclusion ==
    \A r \in 1..Len(runways) : Cardinality(OnRunway(r)) <= 1

\* Two flights are in processing at once, each on its own runway.
C1_Witness ==
    /\ Len(threads) = 2
    /\ Processing(1) /\ Processing(2)
    /\ threads[1].flight.id # threads[2].flight.id

\* C2: once start() has returned, every flight submitted with addFlight has been
\* completed exactly once, and none is left in the queue or in processing.
C2_NoLossNoDuplication ==
    mpc = "returned" =>
        /\ flightQueue = <<>>
        /\ \A t \in ThreadIds : ~Processing(t)
        /\ \A id \in 1..submitted : completions[id] = 1

WithinTolerance(a, b) == Abs(a.timeInMinutes - b.timeInMinutes) <= Tolerance

\* The id of the flight popped in this step, 0 if the step pops none
PoppedId ==
    IF Len(dispatchLog') > Len(dispatchLog)
    THEN dispatchLog'[Len(dispatchLog')].id
    ELSE 0

\* C3: of two queued flights whose times are within the tolerance, the one with
\* the lower priority number is popped no later than the other: no step pops the
\* one with the higher number while the other is still queued.
C3_LowerNumberFirst ==
    [][\A i, j \in 1..Len(flightQueue) :
          (/\ WithinTolerance(flightQueue[i], flightQueue[j])
           /\ flightQueue[i].priority < flightQueue[j].priority)
              => PoppedId # flightQueue[j].id]_vars

\* C3 as amended: when the queue holds exactly two flights and their times are
\* within the tolerance, no step pops the one with the lower priority number
\* while the one with the higher number is still queued.
C3_HigherNumberFirst ==
    [][(Len(flightQueue) = 2 /\ WithinTolerance(flightQueue[1], flightQueue[2])) =>
          \A i, j \in 1..Len(flightQueue) :
              flightQueue[i].priority < flightQueue[j].priority
                  => PoppedId # flightQueue[i].id]_vars

\* A (priority 1, 09:00) is still queued after B (priority 2, 09:00), submitted
\* after it, has been popped from a queue that held exactly the two.
C3_Witness ==
    /\ Len(dispatchLog) = 1 /\ dispatchLog[1].id = 2
    /\ Len(flightQueue) = 1
    /\ flightQueue[1] = Flight(1, 1, <<9, 0>>)
    /\ \E t \in ThreadIds : Processing(t) /\ threads[t].flight = Flight(2, 2, <<9, 0>>)
    /\ submitted = 2

\* C4: of two queued flights of equal priority whose times differ by more than
\* the tolerance, the earlier one is popped first: no step pops the later one
\* while the earlier one is still queued.
C4_EarlierTimeFirst ==
    [][\A i, j \in 1..Len(flightQueue) :
          (/\ ~WithinTolerance(flightQueue[i], flightQueue[j])
           /\ flightQueue[i].priority = flightQueue[j].priority
           /\ flightQueue[i].timeInMinutes < flightQueue[j].timeInMinutes)
              => PoppedId # flightQueue[j].id]_vars

DispatchedIds == {dispatchLog[k].id : k \in 1..Len(dispatchLog)}

\* C5: in the scenario, flights 1 and 2 are the first two flights dispatched, one
\* on each runway, and flight 3 is dispatched only after flight 1 or flight 2 has
\* completed and released its runway.
C5_TopPairFirst ==
    /\ Len(dispatchLog) >= 1 => dispatchLog[1].id \in {1, 2}
    /\ Len(dispatchLog) >= 2 =>
          /\ dispatchLog[2].id \in {1, 2}
          /\ dispatchLog[1].runway # dispatchLog[2].runway
    /\ 3 \in DispatchedIds => completions[1] + completions[2] >= 1

\* C5 as amended: in the scenario, flight 3 is the first flight dispatched, and
\* the last of the three flights is dispatched only after one of the two
\* dispatched before it has completed and released its runway.
C5_Flight3First ==
    /\ Len(dispatchLog) >= 1 => dispatchLog[1].id = 3
    /\ Len(dispatchLog) >= 3 =>
          completions[dispatchLog[1].id] + completions[dispatchLog[2].id] >= 1

\* All three flights of the scenario have been dispatched, the first two on
\* different runways.
C5_Witness ==
    /\ Len(dispatchLog) = 3
    /\ dispatchLog[1].runway # dispatchLog[2].runway
    /\ submitted = 3

\* C6: under fair scheduling, once shutdown has been requested every worker thread
\* reaches Terminated and start() returns; and while no flight has been submitted
\* no flight is dispatched or completed.
C6_Termination ==
    /\ isShutdown ~> (mpc = "returned" /\ \A t \in ThreadIds : threads[t].pc = "Terminated")
    /\ [](submitted = 0 => dispatchLog = <<>>)

\* start() has returned from two runways without a flight ever submitted.
C6_Witness ==
    /\ mpc = "returned"
    /\ Len(threads) = 2
    /\ submitted = 0

\* C7: a call of addFlight made once isShutdown is true leaves the queue as it was.
C7_SubmitAfterShutdownRejected ==
    [][(isShutdown /\ submitted' # submitted) => flightQueue' = flightQueue]_vars

\* C8: once the spawn loop is over there is exactly one worker thread per runway,
\* thread i bound to runway i, and start() has returned only if every one of these
\* threads is Terminated.
C8_OneDispatcherPerRunway ==
    /\ mpc \in {"cin", "join", "returned"} =>
          /\ Len(threads) = Len(runways)
          /\ \A i \in ThreadIds : threads[i].runwayId = runways[i].id
    /\ mpc = "returned" => \A t \in ThreadIds : threads[t].pc = "Terminated"

\* start() has returned from two runways after flights were processed.
C8_Witness ==
    /\ mpc = "returned"
    /\ Len(threads) = 2
    /\ Len(dispatchLog) >= 2

\* C9: in every state reached after the shutdown request, performing the request
\* again (isShutdown = true, notify_all) changes neither the flag nor any thread;
\* the queue and the runways are not touched by it.
C9_IdempotentShutdown ==
    mpc \in {"join", "returned"} =>
        /\ ShutdownValue = isShutdown
        /\ NotifyAll(threads) = threads

\* After the request: a flight in processing, another still queued, the other
\* thread about to evaluate its wait predicate.
C9_Witness ==
    /\ mpc = "join"
    /\ flightQueue # <<>>
    /\ \E t \in ThreadIds : Processing(t)
    /\ \E t \in ThreadIds : threads[t].pc \in {"woken", "lock", "wait"}

\* C10: every release() of a runway is applied to a runway that was acquired and
\* not yet released, that is, to a runway that is not available.
C10_ReleaseOnlyAcquired ==
    [][\A t \in ThreadIds :
          (threads[t].pc = "processing" /\ threads'[t].pc # "processing")
              => ~runways[threads[t].runwayId].isAvailable]_vars

\* The flights now in the queue
Queued == {flightQueue[i] : i \in 1..Len(flightQueue)}

\* Neither flight is ordered below the other
Incomparable(a, b) == ~FlightComparator(a, b) /\ ~FlightComparator(b, a)

\* C11: FlightComparator is a strict weak ordering over the flights it is applied
\* to: irreflexive, transitive, and with transitive incomparability.
C11_StrictWeakOrdering ==
    \A a, b, c \in Queued :
        /\ ~FlightComparator(a, a)
        /\ (FlightComparator(a, b) /\ FlightComparator(b, c)) => FlightComparator(a, c)
        /\ (Incomparable(a, b) /\ Incomparable(b, c)) => Incomparable(a, c)

\* C12: between two queued flights of different priorities the priorities alone
\* decide which is popped first, whatever their times. Within the tolerance the
\* priorities decide for the larger number, so with the two flights alone in the
\* queue no step pops the one with the smaller number.
C12_PriorityAlone ==
    [][Len(flightQueue) = 2 =>
          \A i, j \in 1..Len(flightQueue) :
              flightQueue[i].priority < flightQueue[j].priority
                  => PoppedId # flightQueue[i].id]_vars

\* C12 as amended: the time slot is the first key. With two flights of different
\* priorities alone in the queue: if their times differ by more than the
\* tolerance no step pops the later one, whatever the priorities; if they are
\* within the tolerance no step pops the one with the smaller priority number.
C12_TimeSlotFirst ==
    [][Len(flightQueue) = 2 =>
          \A i, j \in 1..Len(flightQueue) :
              flightQueue[i].priority # flightQueue[j].priority =>
                  /\ (/\ ~WithinTolerance(flightQueue[i], flightQueue[j])
                      /\ flightQueue[i].timeInMinutes < flightQueue[j].timeInMinutes)
                         => PoppedId # flightQueue[j].id
                  /\ (/\ WithinTolerance(flightQueue[i], flightQueue[j])
                      /\ flightQueue[i].priority < flightQueue[j].priority)
                         => PoppedId # flightQueue[i].id]_vars

\* Flight 1 (priority 1, 09:00) has been popped from a queue that held it and
\* flight 2 (priority 2, 09:10), which is still queued.
C12_Witness ==
    /\ submitted = 2
    /\ Len(dispatchLog) = 1 /\ dispatchLog[1].id = 1
    /\ flightQueue = <<Flight(2, 2, <<9, 10>>)>>
    /\ \E t \in ThreadIds : Processing(t) /\ threads[t].flight = Flight(1, 1, <<9, 0>>)

\* C13: a worker that evaluates its wait predicate while the queue is not empty
\* leaves the wait (and goes on to pop), also when shutdown was not requested.
C13_WakeOnWork ==
    [][\A t \in ThreadIds :
          (/\ threads[t].pc = "wait"
           /\ Len(flightQueue) # 0
           /\ threads'[t].pc # "wait")
              => threads'[t].pc = "check"]_vars

\* C14: whenever a worker is processing a flight, its runway is marked
\* unavailable.
C14_RunwayClaimedWhileProcessing ==
    \A t \in ThreadIds :
        Processing(t) => runways[threads[t].runwayId].isAvailable = FALSE

\* C15: a worker leaves its loop only by a step taken with queueMutex held,
\* isShutdown true and the queue empty, and these still hold when it terminates.
C15_TerminateOnlyWhenDrained ==
    [][\A t \in ThreadIds :
          (/\ threads'[t].pc \in {"shutdownMsg", "Terminated"}
           /\ threads'[t].pc # threads[t].pc)
              => (queueMutex = t /\ isShutdown /\ flightQueue = <<>>)]_vars

\* A worker has terminated after a flight was processed.
C15_Witness ==
    /\ \E t \in ThreadIds : threads[t].pc = "Terminated"
    /\ \E id \in 1..submitted : completions[id] = 1

HeldIds == {threads[t].flight.id : t \in {u \in ThreadIds : Processing(u)}}

\* C16: every flight is in the queue at most once, a flight that was popped
\* (held by a worker or completed) is not in the queue, and no flight is held
\* by two workers or popped twice.
C16_QueueMembership ==
    /\ \A i, j \in 1..Len(flightQueue) :
          flightQueue[i].id = flightQueue[j].id => i = j
    /\ \A f \in Queued : f.id \notin HeldIds /\ f.id \notin DispatchedIds
    /\ \A t, u \in ThreadIds :
          (Processing(t) /\ Processing(u) /\ threads[t].flight.id = threads[u].flight.id)
              => t = u
    /\ \A k, l \in 1..Len(dispatchLog) : dispatchLog[k].id = dispatchLog[l].id => k = l

\* Two workers hold a flight each while a third flight is queued.
C16_Witness ==
    /\ Len(threads) = 2
    /\ Processing(1) /\ Processing(2)
    /\ Len(flightQueue) = 1

\* C17: a flight that a worker has popped and is processing has status
\* "assigned" (and no longer "waiting").
C17_StatusAssignedWhileProcessing ==
    \A t \in ThreadIds : Processing(t) => threads[t].flight.status = "assigned"

\* C18: a worker that is processing a flight does not hold queueMutex, and while
\* every worker is processing the mutex is free for addFlight.
C18_NoLockWhileProcessing ==
    /\ \A t \in ThreadIds : Processing(t) => queueMutex # t
    /\ (ThreadIds # {} /\ \A t \in ThreadIds : Processing(t)) => queueMutex = 0

\* One worker is processing while the other holds queueMutex.
C18_Witness ==
    /\ Len(threads) = 2
    /\ Processing(1)
    /\ queueMutex = 2

\* C19: a thread that is emitting a message does not hold queueMutex.
C19_EmitOutsideLocks ==
    \A t \in ThreadIds : threads[t].pc = "shutdownMsg" => queueMutex # t

\* C20: a flight is popped only after start() has made the shutdown request:
\* whenever a flight has been dispatched or is in processing, isShutdown is true
\* and the caller of start() is past the request.
C20_DispatchOnlyAfterShutdown ==
    (dispatchLog # <<>> \/ \E t \in ThreadIds : Processing(t)) =>
        (isShutdown /\ mpc \in {"join", "returned"})

\* Flights were queued and both workers were idle before the request; after it a
\* flight is in processing.
C20_Witness ==
    /\ Len(threads) = 2
    /\ Len(dispatchLog) = 1
    /\ Len(flightQueue) = 2
    /\ \E t \in ThreadIds : Processing(t)


Next ==
    \/ \E p \in Priorities, ts \in TimeStrs : submitted < MaxFlights /\ AddFlight(p, ts)
    \/ StartBegin
    \/ Spawn
    \/ RequestShutdown
    \/ Join
    \/ \E t \in ThreadIds : Worker(t)
    \/ \E t \in ThreadIds : SpuriousWake(t)

Spec == Init /\ [][Next]_vars

\* The same program under fair scheduling of the worker threads and of the thread
\* inside start(); callers of addFlight, the user pressing Enter and spurious
\* wake-ups are under no obligation. Flights are submitted at any moment, all for
\* the same time (the time only decides the order in which they are popped).
NextFair ==
    \/ \E p \in Priorities : submitted < MaxFlights /\ AddFlight(p, <<9, 0>>)
    \/ StartBegin
    \/ Spawn
    \/ RequestShutdown
    \/ Join
    \/ \E t \in ThreadIds : Worker(t)
    \/ \E t \in ThreadIds : SpuriousWake(t)

FairSpec ==
    /\ Init /\ [][NextFair]_vars
    /\ \A t \in 1..MaxRunways : WF_vars(t \in ThreadIds /\ Worker(t))
    /\ WF_vars(Spawn)
    /\ WF_vars(Join)

\* One runway and a wider choice of times, for the order in which flights are popped
InitOrder == InitWith(1)

NextOrder ==
    \/ \E p \in Priorities, ts \in OrderTimeStrs :
          submitted < MaxOrderFlights /\ AddFlight(p, ts)
    \/ StartBegin
    \/ Spawn
    \/ RequestShutdown
    \/ Join
    \/ \E t \in ThreadIds : Worker(t)
    \/ \E t \in ThreadIds : SpuriousWake(t)

SpecOrder == InitOrder /\ [][NextOrder]_vars

\* Two runways; flights 1, 2, 3 of ScenarioFlights are submitted, in this order,
\* before start() is called
InitScenario == InitWith(2)

NextScenario ==
    \/ /\ mpc = "input"
       /\ submitted < Len(ScenarioFlights)
       /\ AddFlight(ScenarioFlights[submitted + 1][1], ScenarioFlights[submitted + 1][2])
    \/ submitted = Len(ScenarioFlights) /\ StartBegin
    \/ Spawn
    \/ RequestShutdown
    \/ Join
    \/ \E t \in ThreadIds : Worker(t)
    \/ \E t \in ThreadIds : SpuriousWake(t)

SpecScenario == InitScenario /\ [][NextScenario]_vars

====
